---- MODULE Spec2Model ----
(***************************************************************************)
(* A model of the SecureUser account of expert-memory: the identity and    *)
(* its verification state machine (user_identity.py), the permission list  *)
(* with its restricted-permission gate (account_access.py) and the         *)
(* composing SecureUser with its audit log (secure_user.py).               *)
(*                                                                         *)
(* Python strings that the code inspects (permission names, emails, phone  *)
(* numbers) are sequences of one-character strings, so that str.upper(),   *)
(* the email pattern and the phone rule are computed, not assumed.         *)
(***************************************************************************)
EXTENDS Integers, Sequences, FiniteSets, TLC

VARIABLES username, email, phone_number, verification_status,
          permissions, audit_log, calls, ret

vars == <<username, email, phone_number, verification_status,
          permissions, audit_log, calls, ret>>

(* The fields of the three objects, without the caller's view. *)
object == <<username, email, phone_number, verification_status,
            permissions, audit_log>>

----------------------------------------------------------------------------
(* Bounds *)

(* Number of mutating calls made on the account in one run. *)
MaxOps == 3

(* Number of audit entries the caller overwrites through a returned list. *)
MaxTamper == 1

----------------------------------------------------------------------------
(* Characters and strings *)

LowerCase == <<"a","b","c","d","e","f","g","h","i","j","k","l","m",
               "n","o","p","q","r","s","t","u","v","w","x","y","z">>
UpperCase == <<"A","B","C","D","E","F","G","H","I","J","K","L","M",
               "N","O","P","Q","R","S","T","U","V","W","X","Y","Z">>
Digits == {"0","1","2","3","4","5","6","7","8","9"}

(* str.isdigit() is also true of digits outside ASCII; SuperscriptTwo     *)
(* stands for the one character U+00B2.                                    *)
SuperscriptTwo == "U+00B2"
IsDigit(c) == c \in Digits \cup {SuperscriptTwo}

Range(s) == {s[i] : i \in DOMAIN s}
Letters == Range(LowerCase) \cup Range(UpperCase)

(* The upper-case letter of each lower-case letter. *)
LowerToUpper ==
    [c \in Range(LowerCase) |->
        UpperCase[CHOOSE i \in DOMAIN LowerCase : LowerCase[i] = c]]

(* str.upper() on one character: a-z map to A-Z, other characters stay. *)
UpperChar(c) ==
    IF c \in DOMAIN LowerToUpper THEN LowerToUpper[c] ELSE c

(* str.upper() *)
upper(s) == [i \in DOMAIN s |-> UpperChar(s[i])]

(* The elements of s that are not in the set drop, in order (str.replace(c, "")). *)
RECURSIVE Strip(_, _)
Strip(s, drop) ==
    IF s = <<>> THEN <<>>
    ELSE IF Head(s) \in drop THEN Strip(Tail(s), drop)
         ELSE <<Head(s)>> \o Strip(Tail(s), drop)

(* x in list *)
In(x, list) == \E i \in DOMAIN list : list[i] = x

(* list.remove(x): removes the first occurrence of x. *)
ListRemove(list, x) ==
    LET i == CHOOSE j \in DOMAIN list :
                 list[j] = x /\ \A k \in 1..(j-1) : list[k] # x
    IN SubSeq(list, 1, i-1) \o SubSeq(list, i+1, Len(list))

----------------------------------------------------------------------------
(* Exceptions: every error of the three classes is a ValueError with a     *)
(* message; text is the fixed part, arg the interpolated string.           *)

NoError == [text |-> "", arg |-> <<>>]
ValueError(text, arg) == [text |-> text, arg |-> arg]

MsgCannotGrant == "Cannot grant '{}' permission. User must be VERIFIED to receive restricted permissions."
MsgAlreadyPending == "Verification already pending. Cannot request again."
MsgAlreadyVerifiedRequest == "User already verified. Cannot request verification."
MsgRequestFirst == "Cannot verify. User must request verification first."
MsgAlreadyVerified == "User already verified."
MsgInvalidEmail == "Invalid email format: {}"
MsgInvalidPhone == "Invalid phone format: {}. Expected format: +X-XXX-XXX-XXXX"

----------------------------------------------------------------------------
(* AccountAccess (account_access.py) *)

RESTRICTED_PERMISSIONS ==
    { <<"T","R","A","N","S","F","E","R">>, <<"W","I","T","H","D","R","A","W">> }

(* AccountAccess.get_permissions: a copy of the list of (immutable) strings. *)
get_permissions(perms) == perms

(* add_permission without the verification test. *)
add_permission_ignores_verified(perms, permission, is_verified) ==
    LET p == upper(permission) IN
    IF ~In(p, perms)
    THEN [raised |-> NoError, permissions |-> Append(perms, p)]
    ELSE [raised |-> NoError, permissions |-> perms]

(* add_permission testing the name as given against the restricted set. *)
add_permission_case_sensitive(perms, permission, is_verified) ==
    LET p == upper(permission) IN
    IF permission \in RESTRICTED_PERMISSIONS /\ ~is_verified
    THEN [raised |-> ValueError(MsgCannotGrant, p), permissions |-> perms]
    ELSE IF ~In(p, perms)
         THEN [raised |-> NoError, permissions |-> Append(perms, p)]
         ELSE [raised |-> NoError, permissions |-> perms]

(* add_permission looking the name up in the list as it was given. *)
add_permission_lookup_as_given(perms, permission, is_verified) ==
    LET p == upper(permission) IN
    IF p \in RESTRICTED_PERMISSIONS /\ ~is_verified
    THEN [raised |-> ValueError(MsgCannotGrant, p), permissions |-> perms]
    ELSE IF ~In(permission, perms)
         THEN [raised |-> NoError, permissions |-> Append(perms, p)]
         ELSE [raised |-> NoError, permissions |-> perms]

(* AccountAccess.add_permission: the error raised (NoError if none) and the *)
(* permission list after the call.                                          *)
add_permission(perms, permission, is_verified) ==
    LET p == upper(permission) IN
    IF p \in RESTRICTED_PERMISSIONS /\ ~is_verified
    THEN [raised |-> ValueError(MsgCannotGrant, p), permissions |-> perms]
    ELSE IF ~In(p, perms)
         THEN [raised |-> NoError, permissions |-> Append(perms, p)]
         ELSE [raised |-> NoError, permissions |-> perms]

(* remove_permission looking the name up as it was given. *)
remove_permission_as_given(perms, permission) ==
    IF In(permission, perms)
    THEN [removed |-> TRUE, permissions |-> ListRemove(perms, permission)]
    ELSE [removed |-> FALSE, permissions |-> perms]

(* AccountAccess.remove_permission: the returned flag and the list after. *)
remove_permission(perms, permission) ==
    LET p == upper(permission) IN
    IF In(p, perms)
    THEN [removed |-> TRUE, permissions |-> ListRemove(perms, p)]
    ELSE [removed |-> FALSE, permissions |-> perms]

(* has_permission looking the name up as it was given. *)
has_permission_as_given(perms, permission) == In(permission, perms)

(* AccountAccess.has_permission *)
has_permission(perms, permission) == In(upper(permission), perms)

----------------------------------------------------------------------------
(* UserIdentity (user_identity.py) *)

EmailLocalChars == Letters \cup Digits \cup {".", "_", "%", "+", "-"}
EmailDomainChars == Letters \cup Digits \cup {".", "-"}

(* re.match(r'^[a-zA-Z0-9._%+-]+@[a-zA-Z0-9.-]+\.[a-zA-Z]{2,}$', s) on the  *)
(* text t: a local part, '@', a domain, '.', and two or more letters.       *)
EmailBodyMatches(t) ==
    \E a \in DOMAIN t : \E d \in DOMAIN t :
        /\ t[a] = "@"
        /\ a > 1
        /\ \A i \in 1..(a-1) : t[i] \in EmailLocalChars
        /\ t[d] = "."
        /\ d > a + 1
        /\ \A i \in (a+1)..(d-1) : t[i] \in EmailDomainChars
        /\ Len(t) >= d + 2
        /\ \A i \in (d+1)..Len(t) : t[i] \in Letters

(* '$' matches at the end of the string and also before one final newline. *)
EmailMatches(s) ==
    \/ EmailBodyMatches(s)
    \/ /\ Len(s) >= 1
       /\ s[Len(s)] = "\n"
       /\ EmailBodyMatches(SubSeq(s, 1, Len(s) - 1))

(* UserIdentity.__validate_email: the error raised, NoError if it returns. *)
validate_email(e) ==
    IF ~EmailMatches(e) THEN ValueError(MsgInvalidEmail, e) ELSE NoError

(* __validate_phone allowing one character less than the code does. *)
validate_phone_max_15(phone) ==
    LET cleaned == Strip(phone, {" ", "-", "(", ")"}) IN
    IF /\ Len(phone) >= 1 /\ phone[1] = "+"
       /\ Len(cleaned) >= 11 /\ Len(cleaned) <= 15
       /\ \A i \in 2..Len(cleaned) : IsDigit(cleaned[i])
    THEN NoError
    ELSE ValueError(MsgInvalidPhone, phone)

(* UserIdentity.__validate_phone *)
validate_phone(phone) ==
    LET cleaned == Strip(phone, {" ", "-", "(", ")"}) IN
    IF /\ Len(phone) >= 1 /\ phone[1] = "+"
       /\ Len(cleaned) >= 11 /\ Len(cleaned) <= 16
       /\ \A i \in 2..Len(cleaned) : IsDigit(cleaned[i])
    THEN NoError
    ELSE ValueError(MsgInvalidPhone, phone)

(* set_email assigning before it validates. *)
set_email_assigns_first(old_email, new_email) ==
    LET err == validate_email(new_email) IN
    [raised |-> err, email |-> new_email]

(* UserIdentity.set_email: validates, then assigns. *)
set_email(old_email, new_email) ==
    LET err == validate_email(new_email) IN
    IF err # NoError
    THEN [raised |-> err, email |-> old_email]
    ELSE [raised |-> NoError, email |-> new_email]

(* request_verification accepting a repeated request while PENDING. *)
identity_request_verification_repeatable(status) ==
    IF status \in {"UNVERIFIED", "PENDING"}
    THEN [raised |-> NoError, status |-> "PENDING"]
    ELSE [raised |-> ValueError(MsgAlreadyVerifiedRequest, <<>>), status |-> status]

(* UserIdentity.request_verification *)
identity_request_verification(status) ==
    IF status = "UNVERIFIED"
    THEN [raised |-> NoError, status |-> "PENDING"]
    ELSE IF status = "PENDING"
    THEN [raised |-> ValueError(MsgAlreadyPending, <<>>), status |-> status]
    ELSE IF status = "VERIFIED"
    THEN [raised |-> ValueError(MsgAlreadyVerifiedRequest, <<>>), status |-> status]
    ELSE [raised |-> NoError, status |-> status]

(* verify accepting any status that is not yet VERIFIED. *)
identity_verify_without_request(status) ==
    IF status # "VERIFIED"
    THEN [raised |-> NoError, status |-> "VERIFIED"]
    ELSE [raised |-> ValueError(MsgAlreadyVerified, <<>>), status |-> status]

(* verify raising the same error for every rejected status. *)
identity_verify_one_message(status) ==
    IF status = "PENDING"
    THEN [raised |-> NoError, status |-> "VERIFIED"]
    ELSE [raised |-> ValueError(MsgAlreadyVerified, <<>>), status |-> status]

(* UserIdentity.verify *)
identity_verify(status) ==
    IF status = "PENDING"
    THEN [raised |-> NoError, status |-> "VERIFIED"]
    ELSE IF status = "UNVERIFIED"
    THEN [raised |-> ValueError(MsgRequestFirst, <<>>), status |-> status]
    ELSE IF status = "VERIFIED"
    THEN [raised |-> ValueError(MsgAlreadyVerified, <<>>), status |-> status]
    ELSE [raised |-> NoError, status |-> status]

----------------------------------------------------------------------------
(* SecureUser (secure_user.py) *)

(* One audit entry. The details string is kept as its format and the values *)
(* interpolated into it. The timestamp field is the wall clock's reading;   *)
(* no operation reads it back and it is left out of the entry.              *)
Details(fmt, p, q, verified, reason) ==
    [fmt |-> fmt, p |-> p, q |-> q, verified |-> verified, reason |-> reason]

(* __log_action inserting the entry at the front of the log. *)
log_action_at_front(log, action, details) ==
    <<[action |-> action, details |-> details]>> \o log

(* SecureUser.__log_action: appends one entry to the log. *)
log_action(log, action, details) ==
    Append(log, [action |-> action, details |-> details])

(* What a call returned to its caller: nothing, a status map, or a list.   *)
(* The list returned by get_audit_log is a new list holding the SAME entry *)
(* objects as the live log (list.copy() is shallow): it is modelled as the *)
(* positions of those objects in audit_log.                                *)
None == [kind |-> "none", value |-> <<>>]

(* The record of one call as its caller saw it. *)
Call(op, arg, raised) == [op |-> op, arg |-> arg, raised |-> raised]

(* Inputs *)
VIEW == <<"V","I","E","W">>
view == <<"v","i","e","w">>
transfer == <<"t","r","a","n","s","f","e","r">>
TRANSFER == <<"T","R","A","N","S","F","E","R">>
WITHDRAW == <<"W","I","T","H","D","R","A","W">>
PermissionInputs == {VIEW, view, transfer, WITHDRAW}

EmailInit == <<"a","@","x",".","c","o">>
EmailValid == <<"b","@","y",".","i","o">>
EmailNoTld == <<"a","@","b">>
EmailNoAt == <<"b",".","i","o">>
EmailInputs == {EmailValid, EmailNoTld, EmailNoAt}

UsernameInit == <<"a","l","i","c","e">>
PhoneInit == <<"+","1","-","5","5","5","-","0","0","0","-","0","0","0","0">>

(* SecureUser.__init__ with valid arguments: UserIdentity.__init__, an     *)
(* empty AccountAccess, and the creation entry.                             *)
Init ==
    /\ validate_email(EmailInit) = NoError
    /\ validate_phone(PhoneInit) = NoError
    /\ username = UsernameInit
    /\ email = EmailInit
    /\ phone_number = PhoneInit
    /\ verification_status = "UNVERIFIED"
    /\ permissions = <<>>
    /\ audit_log = log_action(<<>>, "SecureUser created",
                       Details("Username: {p}", UsernameInit, <<>>, "", NoError))
    /\ calls = <<>>
    /\ ret = None

(* grant_permission taking every status but UNVERIFIED as verified. *)
grant_permission_pending_counts(permission) ==
    /\ LET is_verified == (verification_status # "UNVERIFIED")
           r == add_permission(permissions, permission, is_verified)
       IN /\ permissions' = r.permissions
          /\ audit_log' =
               IF r.raised = NoError
               THEN log_action(audit_log, "Permission granted",
                        Details("Permission: {p}, Verified: {verified}", permission,
                                <<>>, IF is_verified THEN "True" ELSE "False", NoError))
               ELSE log_action(audit_log, "Permission grant FAILED",
                        Details("Permission: {p}, Reason: {reason}", permission,
                                <<>>, "", r.raised))
          /\ calls' = Append(calls, Call("grant_permission", permission, r.raised))
    /\ ret' = None
    /\ UNCHANGED <<username, email, phone_number, verification_status>>

(* grant_permission logging the failure without raising it again. *)
grant_permission_swallows(permission) ==
    /\ LET is_verified == (verification_status = "VERIFIED")
           r == add_permission(permissions, permission, is_verified)
       IN /\ permissions' = r.permissions
          /\ audit_log' =
               IF r.raised = NoError
               THEN log_action(audit_log, "Permission granted",
                        Details("Permission: {p}, Verified: {verified}", permission,
                                <<>>, IF is_verified THEN "True" ELSE "False", NoError))
               ELSE log_action(audit_log, "Permission grant FAILED",
                        Details("Permission: {p}, Reason: {reason}", permission,
                                <<>>, "", r.raised))
          /\ calls' = Append(calls, Call("grant_permission", permission, NoError))
    /\ ret' = None
    /\ UNCHANGED <<username, email, phone_number, verification_status>>

(* SecureUser.grant_permission *)
grant_permission(permission) ==
    /\ LET is_verified == (verification_status = "VERIFIED")
           r == add_permission(permissions, permission, is_verified)
       IN /\ permissions' = r.permissions
          /\ audit_log' =
               IF r.raised = NoError
               THEN log_action(audit_log, "Permission granted",
                        Details("Permission: {p}, Verified: {verified}", permission,
                                <<>>, IF is_verified THEN "True" ELSE "False", NoError))
               ELSE log_action(audit_log, "Permission grant FAILED",
                        Details("Permission: {p}, Reason: {reason}", permission,
                                <<>>, "", r.raised))
          /\ calls' = Append(calls, Call("grant_permission", permission, r.raised))
    /\ ret' = None
    /\ UNCHANGED <<username, email, phone_number, verification_status>>

(* revoke_permission logging only when a permission was removed. *)
revoke_permission_logs_only_removed(permission) ==
    /\ LET r == remove_permission(permissions, permission)
       IN /\ permissions' = r.permissions
          /\ audit_log' =
               IF r.removed
               THEN log_action(audit_log, "Permission revoked",
                        Details("Permission: {p}", permission, <<>>, "", NoError))
               ELSE audit_log
          /\ calls' = Append(calls, Call("revoke_permission", permission, NoError))
    /\ ret' = None
    /\ UNCHANGED <<username, email, phone_number, verification_status>>

(* SecureUser.revoke_permission *)
revoke_permission(permission) ==
    /\ LET r == remove_permission(permissions, permission)
           action == IF r.removed THEN "Permission revoked"
                     ELSE "Permission revoke failed (not found)"
       IN /\ permissions' = r.permissions
          /\ audit_log' = log_action(audit_log, action,
                              Details("Permission: {p}", permission, <<>>, "", NoError))
          /\ calls' = Append(calls, Call("revoke_permission", permission, NoError))
    /\ ret' = None
    /\ UNCHANGED <<username, email, phone_number, verification_status>>

(* SecureUser.request_verification *)
request_verification ==
    /\ LET r == identity_request_verification(verification_status)
       IN /\ verification_status' = r.status
          /\ audit_log' =
               IF r.raised = NoError
               THEN log_action(audit_log, "Verification requested",
                        Details("Status: PENDING", <<>>, <<>>, "", NoError))
               ELSE log_action(audit_log, "Verification request FAILED",
                        Details("{reason}", <<>>, <<>>, "", r.raised))
          /\ calls' = Append(calls, Call("request_verification", <<>>, r.raised))
    /\ ret' = None
    /\ UNCHANGED <<username, email, phone_number, permissions>>

(* verify_identity writing the success entry whatever verify did. *)
verify_identity_logs_success_always ==
    /\ LET r == identity_verify(verification_status)
       IN /\ verification_status' = r.status
          /\ audit_log' = log_action(audit_log, "Identity verified",
                              Details("Status: VERIFIED", <<>>, <<>>, "", NoError))
          /\ calls' = Append(calls, Call("verify_identity", <<>>, r.raised))
    /\ ret' = None
    /\ UNCHANGED <<username, email, phone_number, permissions>>

(* SecureUser.verify_identity *)
verify_identity ==
    /\ LET r == identity_verify(verification_status)
       IN /\ verification_status' = r.status
          /\ audit_log' =
               IF r.raised = NoError
               THEN log_action(audit_log, "Identity verified",
                        Details("Status: VERIFIED", <<>>, <<>>, "", NoError))
               ELSE log_action(audit_log, "Verification FAILED",
                        Details("{reason}", <<>>, <<>>, "", r.raised))
          /\ calls' = Append(calls, Call("verify_identity", <<>>, r.raised))
    /\ ret' = None
    /\ UNCHANGED <<username, email, phone_number, permissions>>

(* update_email withdrawing the restricted permissions when the email     *)
(* changes.                                                                *)
IsUnrestricted(p) == p \notin RESTRICTED_PERMISSIONS

update_email_drops_restricted(new_email) ==
    /\ LET old_email == email
           r == set_email(email, new_email)
       IN /\ email' = r.email
          /\ permissions' =
               IF r.raised = NoError
               THEN SelectSeq(permissions, IsUnrestricted)
               ELSE permissions
          /\ audit_log' =
               IF r.raised = NoError
               THEN log_action(audit_log, "Email updated",
                        Details("{p} -> {q}", old_email, new_email, "", NoError))
               ELSE log_action(audit_log, "Email update FAILED",
                        Details("{reason}", <<>>, <<>>, "", r.raised))
          /\ calls' = Append(calls, Call("update_email", new_email, r.raised))
    /\ ret' = None
    /\ UNCHANGED <<username, phone_number, verification_status>>

(* SecureUser.update_email *)
update_email(new_email) ==
    /\ LET old_email == email
           r == set_email(email, new_email)
       IN /\ email' = r.email
          /\ audit_log' =
               IF r.raised = NoError
               THEN log_action(audit_log, "Email updated",
                        Details("{p} -> {q}", old_email, new_email, "", NoError))
               ELSE log_action(audit_log, "Email update FAILED",
                        Details("{reason}", <<>>, <<>>, "", r.raised))
          /\ calls' = Append(calls, Call("update_email", new_email, r.raised))
    /\ ret' = None
    /\ UNCHANGED <<username, phone_number, verification_status, permissions>>

(* The map SecureUser.identity_status builds. *)
StatusMap ==
    [username |-> username,
     email |-> email,
     phone |-> phone_number,
     verification_status |-> verification_status,
     permissions |-> get_permissions(permissions)]

(* identity_status writing an audit entry for the read. *)
identity_status_logged ==
    /\ ret' = [kind |-> "status", value |-> StatusMap]
    /\ audit_log' = log_action(audit_log, "Status read",
                        Details("", <<>>, <<>>, "", NoError))
    /\ UNCHANGED <<username, email, phone_number, verification_status,
                   permissions, calls>>

(* SecureUser.identity_status *)
identity_status ==
    /\ ret' = [kind |-> "status", value |-> StatusMap]
    /\ UNCHANGED <<object, calls>>

(* The list SecureUser.get_audit_log builds: a shallow copy of the log. *)
LogCopy == [i \in DOMAIN audit_log |-> i]

(* SecureUser.get_audit_log *)
get_audit_log ==
    /\ ret' = [kind |-> "log", value |-> LogCopy]
    /\ UNCHANGED <<object, calls>>

(* A run makes at most MaxOps mutating calls. *)
CanCall == Len(calls) < MaxOps

Next ==
    \/ \E permission \in PermissionInputs : CanCall /\ grant_permission(permission)
    \/ \E permission \in PermissionInputs : CanCall /\ revoke_permission(permission)
    \/ CanCall /\ request_verification
    \/ CanCall /\ verify_identity
    \/ \E new_email \in EmailInputs : CanCall /\ update_email(new_email)
    \/ identity_status
    \/ get_audit_log

Spec == Init /\ [][Next]_vars

----------------------------------------------------------------------------
(* The caller changes an object a call returned to it. *)

FAKE_PERMISSION == <<"F","A","K","E">>
Tampered == "TAMPERED"

(* permissions = user.identity_status()['permissions'];                    *)
(* permissions.append("FAKE_PERMISSION")                                    *)
caller_append_permission ==
    /\ ret.kind = "status"
    /\ ~In(FAKE_PERMISSION, ret.value.permissions)
    /\ ret' = [ret EXCEPT !.value.permissions = Append(@, FAKE_PERMISSION)]
    /\ UNCHANGED <<object, calls>>

(* status = user.identity_status(); status['verification_status'] = ... *)
caller_set_status_field ==
    /\ ret.kind = "status"
    /\ ret.value.verification_status # "VERIFIED"
    /\ ret' = [ret EXCEPT !.value.verification_status = "VERIFIED"]
    /\ UNCHANGED <<object, calls>>

(* log = user.get_audit_log(); del log[0] *)
caller_delete_log_item ==
    /\ ret.kind = "log"
    /\ ret.value # <<>>
    /\ ret' = [ret EXCEPT !.value = Tail(@)]
    /\ UNCHANGED <<object, calls>>

(* log = user.get_audit_log(); log[i]['action'] = ...: the entry is the    *)
(* object the live log holds.                                               *)
caller_set_entry_field(i) ==
    /\ ret.kind = "log"
    /\ i \in DOMAIN ret.value
    /\ audit_log[ret.value[i]].action # Tampered
    /\ Cardinality({j \in DOMAIN audit_log : audit_log[j].action = Tampered}) < MaxTamper
    /\ audit_log' = [audit_log EXCEPT ![ret.value[i]].action = Tampered]
    /\ UNCHANGED <<username, email, phone_number, verification_status,
                   permissions, calls, ret>>

CallerMutation ==
    \/ caller_append_permission
    \/ caller_set_status_field
    \/ caller_delete_log_item
    \/ \E i \in 1..(MaxOps + 1) : caller_set_entry_field(i)

NextCaller ==
    \/ Next
    \/ CallerMutation

SpecCaller == Init /\ [][NextCaller]_vars

----------------------------------------------------------------------------
(* Construction *)

(* Number of mutating calls made after a construction. *)
MaxCtorOps == 2

(* The value of every field while no account object exists. *)
Unbound == <<>>
NoStatus == "unbound"

Absent == audit_log = <<>>

(* UserIdentity.__init__ skipping the phone validation. *)
UserIdentity_init_phone_unchecked(u, e, p) ==
    LET r == set_email(Unbound, e) IN
    [raised |-> r.raised, username |-> u, email |-> r.email,
     phone_number |-> p, verification_status |-> "UNVERIFIED"]

(* UserIdentity.__init__ keeping the phone without its separators. *)
UserIdentity_init_stores_cleaned(u, e, p) ==
    LET r == set_email(Unbound, e)
        perr == validate_phone(p)
    IN  IF r.raised # NoError
        THEN [raised |-> r.raised, username |-> u, email |-> Unbound,
              phone_number |-> Unbound, verification_status |-> "UNVERIFIED"]
        ELSE IF perr # NoError
        THEN [raised |-> perr, username |-> u, email |-> r.email,
              phone_number |-> Unbound, verification_status |-> "UNVERIFIED"]
        ELSE [raised |-> NoError, username |-> u, email |-> r.email,
              phone_number |-> Strip(p, {" ", "-", "(", ")"}),
              verification_status |-> "UNVERIFIED"]

(* UserIdentity.__init__: the error raised and the fields as assigned up   *)
(* to it.                                                                  *)
UserIdentity_init(u, e, p) ==
    LET r == set_email(Unbound, e)
        perr == validate_phone(p)
    IN  IF r.raised # NoError
        THEN [raised |-> r.raised, username |-> u, email |-> Unbound,
              phone_number |-> Unbound, verification_status |-> "UNVERIFIED"]
        ELSE IF perr # NoError
        THEN [raised |-> perr, username |-> u, email |-> r.email,
              phone_number |-> Unbound, verification_status |-> "UNVERIFIED"]
        ELSE [raised |-> NoError, username |-> u, email |-> r.email,
              phone_number |-> p, verification_status |-> "UNVERIFIED"]

(* SecureUser.__init__: the error raised, the identity, the permission     *)
(* list and the audit log.                                                 *)
SecureUser_init(u, e, p) ==
    LET id == UserIdentity_init(u, e, p) IN
    IF id.raised # NoError
    THEN [raised |-> id.raised, identity |-> id,
          permissions |-> Unbound, audit_log |-> Unbound]
    ELSE [raised |-> NoError, identity |-> id,
          permissions |-> <<>>,
          audit_log |-> log_action(<<>>, "SecureUser created",
                            Details("Username: {p}", u, <<>>, "", NoError))]

(* Inputs of the constructor *)
Fives(n) == [i \in 1..n |-> "5"]
Phone10Digits == <<"+">> \o Fives(10)
Phone9Digits == <<"+">> \o Fives(9)
Phone15Digits == <<"+">> \o Fives(15)
Phone16Digits == <<"+">> \o Fives(16)
PhoneShort == <<"1","2","3","-","4","5","6">>
PhoneNoPlus == Fives(11)
PhoneLeadingSpace == <<" ", "+">> \o Fives(10)
PhoneLetter == <<"+">> \o Fives(9) \o <<"a">>
PhoneSecondPlus == <<"+">> \o Fives(5) \o <<"+">> \o Fives(5)
PhoneMostlyDashes == <<"+","1","-","2","-","3","-","4","-","5","-","6">>
PhonePunctuated ==
    <<"+","5","5"," ","(","5","5","5",")"," ">> \o Fives(3) \o <<"-">>
        \o Fives(3) \o <<"-">> \o Fives(4)
PhoneSuperscript == <<"+">> \o Fives(9) \o <<SuperscriptTwo>>
PhoneEmpty == <<>>
PhoneInputs ==
    {PhoneInit, Phone10Digits, Phone9Digits, Phone15Digits, Phone16Digits,
     PhoneShort, PhoneNoPlus, PhoneLeadingSpace, PhoneLetter, PhoneSecondPlus,
     PhoneMostlyDashes, PhonePunctuated, PhoneSuperscript, PhoneEmpty}

UsernameInputs == {UsernameInit, <<>>}
CtorEmailInputs == {EmailInit, EmailNoTld, EmailNoAt}

(* No account object exists yet. *)
InitAbsent ==
    /\ username = Unbound
    /\ email = Unbound
    /\ phone_number = Unbound
    /\ verification_status = NoStatus
    /\ permissions = Unbound
    /\ audit_log = Unbound
    /\ calls = <<>>
    /\ ret = None

(* user = SecureUser(u, e, p): when __init__ raises, the caller gets the   *)
(* error and no object.                                                    *)
construct(u, e, p) ==
    /\ Absent
    /\ LET r == SecureUser_init(u, e, p)
       IN /\ ret' = [kind |-> "construct",
                     value |-> [username |-> u, email |-> e, phone |-> p,
                                raised |-> r.raised]]
          /\ IF r.raised = NoError
             THEN /\ username' = r.identity.username
                  /\ email' = r.identity.email
                  /\ phone_number' = r.identity.phone_number
                  /\ verification_status' = r.identity.verification_status
                  /\ permissions' = r.permissions
                  /\ audit_log' = r.audit_log
             ELSE UNCHANGED object
    /\ UNCHANGED calls

(* Calls need an object; a run makes at most MaxCtorOps of them. *)
CanCallAfterCtor == ~Absent /\ Len(calls) < MaxCtorOps

NextCtor ==
    \/ \E u \in UsernameInputs : \E e \in CtorEmailInputs : \E p \in PhoneInputs :
          construct(u, e, p)
    \/ \E permission \in PermissionInputs :
          CanCallAfterCtor /\ grant_permission(permission)
    \/ \E permission \in PermissionInputs :
          CanCallAfterCtor /\ revoke_permission(permission)
    \/ CanCallAfterCtor /\ request_verification
    \/ CanCallAfterCtor /\ verify_identity
    \/ \E new_email \in EmailInputs : CanCallAfterCtor /\ update_email(new_email)
    \/ ~Absent /\ identity_status
    \/ ~Absent /\ get_audit_log

SpecCtor == InitAbsent /\ [][NextCtor]_vars

----------------------------------------------------------------------------
(* Longer runs over fewer inputs *)

(* Number of mutating calls made in one run of the scenarios. *)
MaxScenarioOps == 5

ScenarioPermissionInputs == {VIEW, transfer, WITHDRAW}
ScenarioRevokeInputs == {transfer}
ScenarioEmailInputs == {EmailValid, EmailNoTld}

CanCallScenario == Len(calls) < MaxScenarioOps

NextScenario ==
    \/ \E permission \in ScenarioPermissionInputs :
          CanCallScenario /\ grant_permission(permission)
    \/ \E permission \in ScenarioRevokeInputs :
          CanCallScenario /\ revoke_permission(permission)
    \/ CanCallScenario /\ request_verification
    \/ CanCallScenario /\ verify_identity
    \/ \E new_email \in ScenarioEmailInputs :
          CanCallScenario /\ update_email(new_email)

SpecScenario == Init /\ [][NextScenario]_vars

----------------------------------------------------------------------------
(* The reads of the account's AccountAccess, next to SecureUser's own *)

(* AccountAccess.get_permissions, called on the account's access object. *)
access_get_permissions ==
    /\ ret' = [kind |-> "permissions", value |-> get_permissions(permissions)]
    /\ UNCHANGED <<object, calls>>

(* AccountAccess.has_permission, called on the account's access object. *)
access_has_permission(permission) ==
    /\ ret' = [kind |-> "held", value |-> has_permission(permissions, permission)]
    /\ UNCHANGED <<object, calls>>

NextRead ==
    \/ Next
    \/ access_get_permissions
    \/ \E permission \in PermissionInputs : access_has_permission(permission)

SpecRead == Init /\ [][NextRead]_vars

----------------------------------------------------------------------------
(* Vocabulary of the properties *)

Last(s) == s[Len(s)]

IsPrefix(s, t) == Len(s) <= Len(t) /\ \A i \in DOMAIN s : s[i] = t[i]

(* The step is one call of a mutating operation; ThisCall is that call. *)
IsCall == Len(calls') = Len(calls) + 1
ThisCall == calls'[Len(calls')]

IsRestricted(name) == upper(name) \in RESTRICTED_PERMISSIONS

HoldsRestricted == \E p \in RESTRICTED_PERMISSIONS : In(p, permissions)

----------------------------------------------------------------------------
(* C1: in every reachable state, if TRANSFER or WITHDRAW is in the         *)
(* permission list then the verification status is VERIFIED.               *)
RestrictedOnlyWhenVerified ==
    HoldsRestricted => verification_status = "VERIFIED"

(* A restricted permission is held, granted under a lower-case spelling. *)
RestrictedGranted ==
    /\ In(TRANSFER, permissions)
    /\ Len(calls) >= 1
    /\ Last(calls) = Call("grant_permission", transfer, NoError)

----------------------------------------------------------------------------
(* C2: every step leaves the verification status unchanged, or moves it    *)
(* UNVERIFIED -> PENDING in a request_verification call, or                *)
(* PENDING -> VERIFIED in a verify_identity call; so VERIFIED is never     *)
(* left, nothing moves backward and UNVERIFIED never jumps to VERIFIED.    *)
StatusMovesForward ==
    [][ \/ verification_status' = verification_status
        \/ /\ verification_status = "UNVERIFIED"
           /\ verification_status' = "PENDING"
           /\ IsCall
           /\ ThisCall.op = "request_verification"
        \/ /\ verification_status = "PENDING"
           /\ verification_status' = "VERIFIED"
           /\ IsCall
           /\ ThisCall.op = "verify_identity" ]_vars

(* Both edges were taken and a further call was made in VERIFIED. *)
VerifiedThenCalledAgain ==
    /\ verification_status = "VERIFIED"
    /\ Len(calls) >= 3
    /\ \E i \in DOMAIN calls : \E j \in DOMAIN calls :
          /\ i < j /\ j < Len(calls)
          /\ calls[i] = Call("request_verification", <<>>, NoError)
          /\ calls[j] = Call("verify_identity", <<>>, NoError)

----------------------------------------------------------------------------
(* C3: after construction and n calls of the five mutating operations the  *)
(* audit log has exactly n+1 entries: the creation entry, then for each i  *)
(* the entry of the i-th call, failed or not.                              *)
Describes(entry, call) ==
    LET failed == call.raised # NoError
        d == entry.details
    IN  IF call.op = "grant_permission"
        THEN /\ entry.action = IF failed THEN "Permission grant FAILED"
                               ELSE "Permission granted"
             /\ d.p = call.arg
             /\ d.reason = call.raised
        ELSE IF call.op = "revoke_permission"
        THEN /\ entry.action \in {"Permission revoked",
                                  "Permission revoke failed (not found)"}
             /\ d.p = call.arg
        ELSE IF call.op = "request_verification"
        THEN /\ entry.action = IF failed THEN "Verification request FAILED"
                               ELSE "Verification requested"
             /\ d.reason = call.raised
        ELSE IF call.op = "verify_identity"
        THEN /\ entry.action = IF failed THEN "Verification FAILED"
                               ELSE "Identity verified"
             /\ d.reason = call.raised
        ELSE IF call.op = "update_email"
        THEN /\ entry.action = IF failed THEN "Email update FAILED"
                               ELSE "Email updated"
             /\ d.reason = call.raised
             /\ ~failed => d.q = call.arg
        ELSE FALSE

OneEntryPerCall ==
    /\ Len(audit_log) = Len(calls) + 1
    /\ audit_log[1].action = "SecureUser created"
    /\ \A i \in DOMAIN calls : Describes(audit_log[i + 1], calls[i])

(* MaxOps calls were made, some failed, some succeeded, one revoked       *)
(* nothing.                                                                *)
MixedOutcomesLogged ==
    /\ Len(calls) = MaxOps
    /\ \E i \in DOMAIN calls : calls[i].raised # NoError
    /\ \E i \in DOMAIN calls : calls[i].raised = NoError
    /\ \E i \in DOMAIN audit_log :
          audit_log[i].action = "Permission revoke failed (not found)"

----------------------------------------------------------------------------
(* C4: grant_permission of a name whose upper-case form is restricted,     *)
(* called while UNVERIFIED or PENDING, raises the permission-denied error  *)
(* and leaves the permission list as it was; AccountAccess.add_permission  *)
(* with is_verified false does the same for a restricted name.             *)
DeniedGrantStep ==
    (/\ IsCall
     /\ ThisCall.op = "grant_permission"
     /\ IsRestricted(ThisCall.arg)
     /\ verification_status \in {"UNVERIFIED", "PENDING"})
    => /\ ThisCall.raised = ValueError(MsgCannotGrant, upper(ThisCall.arg))
       /\ permissions' = permissions

DeniedAddPermission ==
    \A name \in PermissionInputs :
        IsRestricted(name) =>
            LET r == add_permission(permissions, name, FALSE)
            IN  /\ r.raised = ValueError(MsgCannotGrant, upper(name))
                /\ r.permissions = permissions

RestrictedGrantDenied ==
    /\ []DeniedAddPermission
    /\ [][DeniedGrantStep]_vars

(* A lower-case restricted name was denied while PENDING, with a          *)
(* permission already in the list.                                         *)
DeniedWhilePending ==
    /\ verification_status = "PENDING"
    /\ permissions # <<>>
    /\ Len(calls) >= 1
    /\ Last(calls).op = "grant_permission"
    /\ Last(calls).arg = transfer
    /\ Last(calls).raised # NoError

----------------------------------------------------------------------------
(* C5: request_verification succeeds exactly when the status is            *)
(* UNVERIFIED and then makes it PENDING; in PENDING or VERIFIED it raises  *)
(* the invalid-transition error and leaves status, email, phone and        *)
(* permissions unchanged.                                                  *)
RequestVerificationStep ==
    (IsCall /\ ThisCall.op = "request_verification")
    => IF verification_status = "UNVERIFIED"
       THEN /\ ThisCall.raised = NoError
            /\ verification_status' = "PENDING"
       ELSE /\ ThisCall.raised.text =
                  IF verification_status = "PENDING" THEN MsgAlreadyPending
                  ELSE MsgAlreadyVerifiedRequest
            /\ verification_status' = verification_status
            /\ email' = email
            /\ phone_number' = phone_number
            /\ permissions' = permissions

RequestVerificationContract == [][RequestVerificationStep]_vars

(* request_verification was accepted in UNVERIFIED and, after the verify, *)
(* rejected in VERIFIED.                                                   *)
RequestRejectedWhenVerified ==
    /\ Len(calls) = 3
    /\ calls[1] = Call("request_verification", <<>>, NoError)
    /\ calls[3] = Call("request_verification", <<>>,
                       ValueError(MsgAlreadyVerifiedRequest, <<>>))
    /\ verification_status = "VERIFIED"

----------------------------------------------------------------------------
(* C6: verify succeeds exactly when the status is PENDING and then makes   *)
(* it VERIFIED; in UNVERIFIED or VERIFIED it raises the invalid-transition *)
(* error and leaves the status unchanged; request_verification then verify *)
(* on a fresh account both succeed and end in VERIFIED.                    *)
VerifyStep ==
    (IsCall /\ ThisCall.op = "verify_identity")
    => IF verification_status = "PENDING"
       THEN /\ ThisCall.raised = NoError
            /\ verification_status' = "VERIFIED"
       ELSE /\ ThisCall.raised.text =
                  IF verification_status = "UNVERIFIED" THEN MsgRequestFirst
                  ELSE MsgAlreadyVerified
            /\ verification_status' = verification_status

RequestThenVerify ==
    (/\ Len(calls) = 2
     /\ calls[1].op = "request_verification"
     /\ calls[2].op = "verify_identity")
    => /\ calls[1].raised = NoError
       /\ calls[2].raised = NoError
       /\ verification_status = "VERIFIED"

VerifyContract ==
    /\ []RequestThenVerify
    /\ [][VerifyStep]_vars

(* verify was rejected before any request, then accepted after one. *)
VerifyRejectedThenAccepted ==
    /\ Len(calls) = 3
    /\ calls[1] = Call("verify_identity", <<>>, ValueError(MsgRequestFirst, <<>>))
    /\ calls[2].op = "request_verification"
    /\ calls[3] = Call("verify_identity", <<>>, NoError)
    /\ verification_status = "VERIFIED"

----------------------------------------------------------------------------
(* C7: when the delegate of grant_permission, request_verification,        *)
(* verify_identity or update_email raises, the call appends the failure    *)
(* entry carrying the reason and raises that same error to its caller: it  *)
(* never returns normally, and the log ends with the failed attempt when   *)
(* the caller sees the error.                                              *)
DelegateError(call) ==
    IF call.op = "grant_permission"
    THEN add_permission(permissions, call.arg,
                        verification_status = "VERIFIED").raised
    ELSE IF call.op = "request_verification"
    THEN identity_request_verification(verification_status).raised
    ELSE IF call.op = "verify_identity"
    THEN identity_verify(verification_status).raised
    ELSE IF call.op = "update_email"
    THEN set_email(email, call.arg).raised
    ELSE NoError

FailureActions ==
    {"Permission grant FAILED", "Verification request FAILED",
     "Verification FAILED", "Email update FAILED"}

FailedCallStep ==
    (IsCall /\ DelegateError(ThisCall) # NoError)
    => /\ ThisCall.raised = DelegateError(ThisCall)
       /\ Len(audit_log') = Len(audit_log) + 1
       /\ Last(audit_log').action \in FailureActions
       /\ Last(audit_log').details.reason = ThisCall.raised
       /\ Describes(Last(audit_log'), ThisCall)

FailureLoggedThenRaised == [][FailedCallStep]_vars

(* Two different operations failed in one run, the second just now, and   *)
(* the log ends with its reason.                                           *)
CallerSawLoggedFailure ==
    /\ Len(calls) >= 2
    /\ Last(calls).raised # NoError
    /\ Last(audit_log).details.reason = Last(calls).raised
    /\ \E i \in DOMAIN calls :
          calls[i].raised # NoError /\ calls[i].op # Last(calls).op

----------------------------------------------------------------------------
(* C8: changing a collection that identity_status or get_audit_log         *)
(* returned (the status map, its permissions list, the log list or an      *)
(* entry in it) never changes what a later identity_status,                *)
(* get_permissions or get_audit_log returns.                               *)
LogView == [i \in DOMAIN LogCopy |-> audit_log[LogCopy[i]]]

SnapshotIndependence ==
    [][CallerMutation =>
          /\ StatusMap' = StatusMap
          /\ get_permissions(permissions') = get_permissions(permissions)
          /\ LogView' = LogView]_vars

----------------------------------------------------------------------------
(* C9: every step of an operation of SecureUser leaves the audit log of    *)
(* before as a prefix of the audit log of after.                           *)
AuditLogAppendOnly == [][IsPrefix(audit_log, audit_log')]_vars

(* The log grew to its full length with entries that differ. *)
LogGrewToFull ==
    /\ Len(audit_log) = MaxOps + 1
    /\ \E i \in DOMAIN audit_log : \E j \in DOMAIN audit_log :
          i # j /\ audit_log[i] # audit_log[j]

----------------------------------------------------------------------------
(* C10: the stored email always matches the validation pattern;            *)
(* update_email with an address that does not match raises the validation  *)
(* error and keeps the stored email; with one that matches it replaces the *)
(* stored email by the new one.                                            *)
UpdateEmailStep ==
    (IsCall /\ ThisCall.op = "update_email")
    => IF EmailMatches(ThisCall.arg)
       THEN /\ ThisCall.raised = NoError
            /\ email' = ThisCall.arg
       ELSE /\ ThisCall.raised = ValueError(MsgInvalidEmail, ThisCall.arg)
            /\ email' = email

EmailAllOrNothing ==
    /\ []EmailMatches(email)
    /\ [][UpdateEmailStep]_vars

(* The email was replaced once, and a later invalid update was rejected. *)
EmailReplacedThenRejected ==
    /\ email = EmailValid
    /\ Len(calls) >= 2
    /\ \E i \in DOMAIN calls : calls[i] = Call("update_email", EmailValid, NoError)
    /\ Last(calls) = Call("update_email", EmailNoTld,
                          ValueError(MsgInvalidEmail, EmailNoTld))

----------------------------------------------------------------------------
(* The phone rule in the words of the specification: the string starts    *)
(* with '+' and, with spaces, dashes and parentheses removed, has 11 to 16 *)
(* characters of which all after the first are digits.                     *)
IsPhoneSeparator(c) == c \in {" ", "-", "(", ")"}
IsPhoneCharacter(c) == ~IsPhoneSeparator(c)

PhoneRule(phone) ==
    LET kept == SelectSeq(phone, IsPhoneCharacter) IN
    /\ phone # <<>>
    /\ Head(phone) = "+"
    /\ Len(kept) \in 11..16
    /\ \A i \in 2..Len(kept) : IsDigit(kept[i])

----------------------------------------------------------------------------
(* C11: SecureUser(username, email, phone) raises the validation error    *)
(* when the email or the phone is invalid, and then no account and no      *)
(* audit entry exist; after every valid construction the permission list   *)
(* is empty, the status is UNVERIFIED and the audit log is exactly the     *)
(* creation entry.                                                         *)
NothingBound ==
    /\ username = Unbound
    /\ email = Unbound
    /\ phone_number = Unbound
    /\ verification_status = NoStatus
    /\ permissions = Unbound
    /\ audit_log = Unbound
    /\ calls = <<>>

ConstructionAtomic ==
    /\ Absent => NothingBound
    /\ ret.kind = "construct" =>
          LET a == ret.value IN
          IF EmailMatches(a.email) /\ PhoneRule(a.phone)
          THEN /\ a.raised = NoError
               /\ username = a.username
               /\ email = a.email
               /\ phone_number = a.phone
               /\ permissions = <<>>
               /\ verification_status = "UNVERIFIED"
               /\ Len(audit_log) = 1
               /\ audit_log[1].action = "SecureUser created"
               /\ audit_log[1].details.p = a.username
          ELSE /\ a.raised =
                     IF ~EmailMatches(a.email)
                     THEN ValueError(MsgInvalidEmail, a.email)
                     ELSE ValueError(MsgInvalidPhone, a.phone)
               /\ NothingBound

(* A construction failed on the phone, after its email had been accepted. *)
ConstructionFailedOnPhone ==
    /\ ret.kind = "construct"
    /\ ret.value.email = EmailInit
    /\ ret.value.phone = PhoneShort
    /\ ret.value.raised = ValueError(MsgInvalidPhone, PhoneShort)
    /\ Absent

----------------------------------------------------------------------------
(* C12: from a fresh account, grant VIEW (succeeds), grant WITHDRAW        *)
(* (denied), request_verification, verify, grant WITHDRAW (succeeds) ends  *)
(* with the permissions exactly VIEW and WITHDRAW and six audit entries.   *)
CallsMade == [i \in DOMAIN calls |-> <<calls[i].op, calls[i].arg>>]

EndToEndCalls ==
    << <<"grant_permission", VIEW>>,
       <<"grant_permission", WITHDRAW>>,
       <<"request_verification", <<>> >>,
       <<"verify_identity", <<>> >>,
       <<"grant_permission", WITHDRAW>> >>

EndToEndScenario ==
    CallsMade = EndToEndCalls
    => /\ [i \in DOMAIN calls |-> calls[i].raised] =
             << NoError, ValueError(MsgCannotGrant, WITHDRAW),
                NoError, NoError, NoError >>
       /\ Range(permissions) = {VIEW, WITHDRAW}
       /\ Len(permissions) = 2
       /\ Len(audit_log) = 6

(* The five calls of the scenario were made. *)
EndToEndScenarioRun ==
    /\ CallsMade = EndToEndCalls
    /\ permissions = <<VIEW, WITHDRAW>>
    /\ verification_status = "VERIFIED"

----------------------------------------------------------------------------
(* C13: the construction stores the username and the phone it was given,   *)
(* and every later step (the five mutating operations, identity_status and *)
(* get_audit_log, failing or not) leaves both as they are.                 *)
IdentityFieldsFixedStep ==
    /\ (Absent /\ ~Absent') =>
          /\ username' = ret'.value.username
          /\ phone_number' = ret'.value.phone
    /\ ~Absent =>
          /\ username' = username
          /\ phone_number' = phone_number

IdentityFieldsFixed == [][IdentityFieldsFixedStep]_vars

(* An account built with a punctuated phone and an empty username has     *)
(* changed its email and failed a call, and a read has returned.          *)
FieldsKeptThroughCalls ==
    /\ username = <<>>
    /\ phone_number = PhonePunctuated
    /\ email = EmailValid
    /\ Len(calls) = MaxCtorOps
    /\ \E i \in DOMAIN calls : calls[i].raised # NoError
    /\ ret.kind = "status"

----------------------------------------------------------------------------
(* C14: a grant of a restricted name is decided by the status at the call: *)
(* denied while UNVERIFIED or PENDING, and accepted while VERIFIED, after  *)
(* which has_permission of the name is true, whatever earlier calls of     *)
(* the same grant returned.                                                *)
GrantDecidedAtCallStep ==
    (/\ IsCall
     /\ ThisCall.op = "grant_permission"
     /\ IsRestricted(ThisCall.arg))
    => IF verification_status = "VERIFIED"
       THEN /\ ThisCall.raised = NoError
            /\ has_permission(permissions', ThisCall.arg)
       ELSE /\ ThisCall.raised # NoError
            /\ ~has_permission(permissions', ThisCall.arg)

GrantDecidedAtCall == [][GrantDecidedAtCallStep]_vars

(* The same grant was denied while UNVERIFIED and while PENDING and then  *)
(* accepted after the verify.                                             *)
DeniedTwiceThenGranted ==
    /\ Len(calls) = 5
    /\ calls[1].op = "grant_permission" /\ calls[1].arg = transfer
    /\ calls[1].raised # NoError
    /\ calls[2].op = "request_verification"
    /\ calls[3].op = "grant_permission" /\ calls[3].arg = transfer
    /\ calls[3].raised # NoError
    /\ calls[4].op = "verify_identity"
    /\ calls[5] = Call("grant_permission", transfer, NoError)
    /\ has_permission(permissions, transfer)

----------------------------------------------------------------------------
(* C15: granting a permission that is already held, under any letter case, *)
(* raises no error and leaves the permission list unchanged; in every      *)
(* reachable state the list holds upper-case names, each at most once.     *)
RegrantStep ==
    (/\ IsCall
     /\ ThisCall.op = "grant_permission"
     /\ has_permission(permissions, ThisCall.arg))
    => /\ ThisCall.raised = NoError
       /\ permissions' = permissions

NoDuplicatePermission ==
    /\ \A i \in DOMAIN permissions : \A j \in DOMAIN permissions :
          i # j => permissions[i] # permissions[j]
    /\ \A i \in DOMAIN permissions : upper(permissions[i]) = permissions[i]

GrantIdempotent ==
    /\ []NoDuplicatePermission
    /\ [][RegrantStep]_vars

(* VIEW was granted and then granted again in lower case. *)
GrantedAgainInLowerCase ==
    /\ Len(calls) >= 2
    /\ calls[Len(calls) - 1] = Call("grant_permission", VIEW, NoError)
    /\ Last(calls) = Call("grant_permission", view, NoError)
    /\ permissions = <<VIEW>>

----------------------------------------------------------------------------
(* C16: revoke_permission raises nothing in any status. If the upper-case  *)
(* name is held it is removed, the removal is reported (the entry reads    *)
(* "Permission revoked") and has_permission of it becomes false; if not,   *)
(* the list is unchanged and "not found" is reported. Restricted names     *)
(* are revoked alike, and a grant of a restricted name succeeds only while *)
(* VERIFIED, also after a revoke.                                          *)
RevokeStep ==
    (IsCall /\ ThisCall.op = "revoke_permission")
    => /\ ThisCall.raised = NoError
       /\ IF has_permission(permissions, ThisCall.arg)
          THEN /\ Last(audit_log').action = "Permission revoked"
               /\ ~has_permission(permissions', ThisCall.arg)
               /\ Range(permissions') = Range(permissions) \ {upper(ThisCall.arg)}
               /\ Len(permissions') = Len(permissions) - 1
          ELSE /\ Last(audit_log').action = "Permission revoke failed (not found)"
               /\ permissions' = permissions

RestrictedGrantNeedsVerified ==
    (/\ IsCall
     /\ ThisCall.op = "grant_permission"
     /\ IsRestricted(ThisCall.arg)
     /\ ThisCall.raised = NoError)
    => verification_status = "VERIFIED"

RevokeContract == [][RevokeStep /\ RestrictedGrantNeedsVerified]_vars

(* A restricted permission was granted under a lower-case name, revoked   *)
(* and granted again.                                                      *)
RevokedThenGrantedAgain ==
    /\ Len(calls) = 5
    /\ calls[3] = Call("grant_permission", transfer, NoError)
    /\ calls[4] = Call("revoke_permission", transfer, NoError)
    /\ audit_log[5].action = "Permission revoked"
    /\ calls[5] = Call("grant_permission", transfer, NoError)
    /\ permissions = <<TRANSFER>>

----------------------------------------------------------------------------
(* C17: request_verification, verify_identity and update_email, failing    *)
(* or not, never change the permission list; grant_permission and          *)
(* revoke_permission, failing or not, never change the status or the       *)
(* email; a permission leaves the list only in a revoke_permission call.   *)
ComponentsIndependentStep ==
    /\ (IsCall /\ ThisCall.op \in {"request_verification", "verify_identity",
                                   "update_email"})
          => permissions' = permissions
    /\ (IsCall /\ ThisCall.op \in {"grant_permission", "revoke_permission"})
          => /\ verification_status' = verification_status
             /\ email' = email
    /\ (Range(permissions) \ Range(permissions') # {})
          => (IsCall /\ ThisCall.op = "revoke_permission")

ComponentsIndependent == [][ComponentsIndependentStep]_vars

(* A restricted permission granted while verified is still held after an  *)
(* email change and a rejected request_verification.                      *)
RestrictedKeptThroughIdentityCalls ==
    /\ Len(calls) = 5
    /\ calls[3] = Call("grant_permission", transfer, NoError)
    /\ calls[4] = Call("update_email", EmailValid, NoError)
    /\ calls[5].op = "request_verification"
    /\ calls[5].raised # NoError
    /\ permissions = <<TRANSFER>>
    /\ email = EmailValid

----------------------------------------------------------------------------
(* C18: add_permission, remove_permission and has_permission act on the    *)
(* upper-case form of the name: a grant or a revoke under any spelling     *)
(* does what it does under the upper-case spelling, every spelling of a    *)
(* restricted name is denied while not verified, and has_permission gives  *)
(* the same answer for all names with the same upper-case form.            *)
Withdraw == <<"W","i","t","h","d","r","a","w">>
withdraw == <<"w","i","t","h","d","r","a","w">>
Spellings == PermissionInputs \cup {TRANSFER, Withdraw, withdraw}

SameUpperCase ==
    {nm \in Spellings \X Spellings : upper(nm[1]) = upper(nm[2])}
RestrictedSpellings ==
    {n \in Spellings : upper(n) \in {TRANSFER, WITHDRAW}}

SameAnswerForSpellings ==
    \A nm \in SameUpperCase :
        has_permission(permissions, nm[1]) = has_permission(permissions, nm[2])

RestrictedSpellingsDenied ==
    \A n \in RestrictedSpellings :
        /\ add_permission(permissions, n, FALSE).raised # NoError
        /\ add_permission(permissions, n, FALSE).permissions = permissions

SpellingStep ==
    /\ (IsCall /\ ThisCall.op = "grant_permission") =>
          LET r == add_permission(permissions, upper(ThisCall.arg),
                                  verification_status = "VERIFIED")
          IN  /\ permissions' = r.permissions
              /\ ThisCall.raised = r.raised
    /\ (IsCall /\ ThisCall.op = "revoke_permission") =>
          permissions' =
              remove_permission(permissions, upper(ThisCall.arg)).permissions

NamesCaseInsensitive ==
    /\ [](SameAnswerForSpellings /\ RestrictedSpellingsDenied)
    /\ [][SpellingStep]_vars

(* VIEW is held after a grant in lower case, and a lower-case restricted  *)
(* name was just denied.                                                   *)
LowerCaseGrantedAndDenied ==
    /\ Len(calls) >= 2
    /\ \E i \in DOMAIN calls : calls[i] = Call("grant_permission", view, NoError)
    /\ Last(calls).op = "grant_permission"
    /\ Last(calls).arg = transfer
    /\ Last(calls).raised # NoError
    /\ permissions = <<VIEW>>
    /\ has_permission(permissions, view)

----------------------------------------------------------------------------
(* C19: a construction with a valid email accepts the phone exactly when   *)
(* the phone starts with '+' and, without spaces, dashes and parentheses,  *)
(* has 11 to 16 characters, all digits after the '+'; every other phone    *)
(* is rejected with the validation error. A digit is what str.isdigit      *)
(* takes for one.                                                          *)
AcceptedPhones ==
    {PhoneInit, Phone10Digits, Phone15Digits, PhonePunctuated, PhoneSuperscript}

PhoneAcceptedExactly ==
    /\ \A phone \in PhoneInputs :
          /\ (validate_phone(phone) = NoError) <=> PhoneRule(phone)
          /\ PhoneRule(phone) <=> phone \in AcceptedPhones
    /\ (ret.kind = "construct" /\ EmailMatches(ret.value.email)) =>
          IF PhoneRule(ret.value.phone)
          THEN /\ ret.value.raised = NoError
               /\ phone_number = ret.value.phone
          ELSE /\ ret.value.raised = ValueError(MsgInvalidPhone, ret.value.phone)
               /\ Absent

(* A phone of '+' and 16 digits was rejected. *)
SeventeenCharactersRejected ==
    /\ ret.kind = "construct"
    /\ ret.value.email = EmailInit
    /\ ret.value.phone = Phone16Digits
    /\ ret.value.raised = ValueError(MsgInvalidPhone, Phone16Digits)

----------------------------------------------------------------------------
(* C20: in every audit log the operations write, there is at most one      *)
(* "Verification requested" and at most one "Identity verified" entry, the *)
(* first before the second; every "Permission granted" entry of a          *)
(* restricted name comes after "Identity verified" and records Verified:   *)
(* True; every grant of a restricted name logged before "Identity          *)
(* verified" is a "Permission grant FAILED" entry.                         *)
EntriesOf(action) == {i \in DOMAIN audit_log : audit_log[i].action = action}

IsRestrictedGrantEntry(i) ==
    /\ audit_log[i].action \in {"Permission granted", "Permission grant FAILED"}
    /\ IsRestricted(audit_log[i].details.p)

AuditLogFollowsProtocol ==
    LET requested == EntriesOf("Verification requested")
        verified == EntriesOf("Identity verified")
    IN  /\ Cardinality(requested) <= 1
        /\ Cardinality(verified) <= 1
        /\ \A j \in verified : \E i \in requested : i < j
        /\ \A k \in DOMAIN audit_log :
              IsRestrictedGrantEntry(k) =>
                  IF \E j \in verified : j < k
                  THEN audit_log[k].action = "Permission granted"
                       /\ audit_log[k].details.verified = "True"
                  ELSE audit_log[k].action = "Permission grant FAILED"

(* A log with a denied restricted grant before the request, another       *)
(* between the request and the verify, and an accepted one after it.      *)
ProtocolInLog ==
    [i \in DOMAIN audit_log |-> audit_log[i].action] =
        << "SecureUser created", "Permission grant FAILED",
           "Verification requested", "Permission grant FAILED",
           "Identity verified", "Permission granted" >>

----------------------------------------------------------------------------
(* C21: a call of identity_status, get_audit_log, get_permissions or       *)
(* has_permission changes no field of the account: the username, email,    *)
(* phone number, verification status, permissions and audit log are after  *)
(* the call what they were before it, and no audit entry is appended.      *)
(* identity_status returns the account's current username, email, phone,   *)
(* verification status and permissions; get_audit_log returns the entries  *)
(* of the log in order; get_permissions returns the permissions.           *)
ReadKinds == {"status", "log", "permissions", "held"}

ReadReturned == ~IsCall /\ ret'.kind \in ReadKinds

ReadStep ==
    ReadReturned =>
        /\ username' = username
        /\ email' = email
        /\ phone_number' = phone_number
        /\ verification_status' = verification_status
        /\ permissions' = permissions
        /\ audit_log' = audit_log
        /\ ret'.kind = "status" =>
              ret'.value = [username |-> username,
                            email |-> email,
                            phone |-> phone_number,
                            verification_status |-> verification_status,
                            permissions |-> permissions]
        /\ ret'.kind = "log" =>
              [i \in DOMAIN ret'.value |-> audit_log[ret'.value[i]]] = audit_log
        /\ ret'.kind = "permissions" => ret'.value = permissions
        /\ ret'.kind = "held" => ret'.value \in BOOLEAN

ReadsArePure == [][ReadStep]_vars

(* identity_status has returned the map of an account that was verified    *)
(* and granted TRANSFER, and the log holds the creation entry and one      *)
(* entry per mutating call, none for the read.                             *)
StatusReadAfterGrant ==
    /\ ret.kind = "status"
    /\ ret.value.verification_status = "VERIFIED"
    /\ ret.value.permissions = <<TRANSFER>>
    /\ verification_status = "VERIFIED"
    /\ permissions = <<TRANSFER>>
    /\ Len(audit_log) = Len(calls) + 1

====
